---- MODULE Spec2Model ----
(***************************************************************************)
(* Model of the desktop shell in packages/desktop/src-tauri/src/lib.rs:    *)
(* the shared zoom level ZOOM_LEVEL, the menu-event handler that mutates   *)
(* it through get_zoom_factor / set_zoom_factor, and the construction of   *)
(* the application menu in setup.                                          *)
(*                                                                         *)
(* The zoom arithmetic is IEEE-754 binary64 (Rust f64), modelled exactly.  *)
(* An f64 value v >= 0 is represented by the natural number v * 2^FracBits *)
(* (fixed point), held as a little-endian sequence of limbs in base        *)
(* LimbBase because the values exceed the checker's machine integers.      *)
(* Every f64 operation computes the exact result and rounds it to 53       *)
(* significant bits, ties to even, as the hardware does.  The              *)
(* representation is exact for every f64 in [2^-7, 2^53), which covers     *)
(* all values set_zoom_factor computes from the levels it stores.          *)
(***************************************************************************)
EXTENDS Integers, Sequences, FiniteSets, TLC

\* ---------------------------------------------------------------- naturals
LimbBits == 15
LimbBase == 2 ^ LimbBits
FracLimbs == 4
FracBits == FracLimbs * LimbBits
MantBits == 53

RECURSIVE Trim(_)
Trim(a) ==
  IF a = << >> THEN a
  ELSE IF a[Len(a)] = 0 THEN Trim(SubSeq(a, 1, Len(a) - 1)) ELSE a

Limb(a, i) == IF i <= Len(a) THEN a[i] ELSE 0

RECURSIVE AddFrom(_, _, _, _)
AddFrom(a, b, i, carry) ==
  IF i > Len(a) /\ i > Len(b)
  THEN IF carry = 0 THEN << >> ELSE << carry >>
  ELSE LET s == Limb(a, i) + Limb(b, i) + carry
       IN  << s % LimbBase >> \o AddFrom(a, b, i + 1, s \div LimbBase)

BigAdd(a, b) == Trim(AddFrom(a, b, 1, 0))

\* a - b for a >= b
RECURSIVE SubFrom(_, _, _, _)
SubFrom(a, b, i, borrow) ==
  IF i > Len(a) THEN << >>
  ELSE LET d == Limb(a, i) - Limb(b, i) - borrow
       IN  IF d < 0 THEN << d + LimbBase >> \o SubFrom(a, b, i + 1, 1)
                    ELSE << d >> \o SubFrom(a, b, i + 1, 0)

BigSub(a, b) == Trim(SubFrom(a, b, 1, 0))

RECURSIVE LessFrom(_, _, _)
LessFrom(a, b, i) ==
  IF i = 0 THEN FALSE
  ELSE IF a[i] # b[i] THEN a[i] < b[i] ELSE LessFrom(a, b, i - 1)

BigLess(a, b) ==
  IF Len(a) # Len(b) THEN Len(a) < Len(b) ELSE LessFrom(a, b, Len(a))

\* a * k for a small k (k * LimbBase fits a machine integer)
RECURSIVE MulFrom(_, _, _, _)
MulFrom(a, k, i, carry) ==
  IF i > Len(a)
  THEN IF carry = 0 THEN << >> ELSE << carry % LimbBase, carry \div LimbBase >>
  ELSE LET p == a[i] * k + carry
       IN  << p % LimbBase >> \o MulFrom(a, k, i + 1, p \div LimbBase)

BigMulSmall(a, k) == Trim(MulFrom(a, k, 1, 0))

\* a divided by a small d: quotient limbs (little-endian) and remainder
RECURSIVE DivFrom(_, _, _, _)
DivFrom(a, d, i, rem) ==
  IF i = 0 THEN [q |-> << >>, r |-> rem]
  ELSE LET cur  == rem * LimbBase + a[i]
           rest == DivFrom(a, d, i - 1, cur % d)
       IN  [q |-> rest.q \o << cur \div d >>, r |-> rest.r]

BigDivSmall(a, d) ==
  LET res == DivFrom(a, d, Len(a), 0) IN [q |-> Trim(res.q), r |-> res.r]

RECURSIVE IntBits(_)
IntBits(n) == IF n = 0 THEN 0 ELSE 1 + IntBits(n \div 2)

BitLen(a) == IF a = << >> THEN 0 ELSE (Len(a) - 1) * LimbBits + IntBits(a[Len(a)])

RECURSIVE FromNat(_)
FromNat(n) == IF n = 0 THEN << >> ELSE << n % LimbBase >> \o FromNat(n \div LimbBase)

RECURSIVE ToNat(_)
ToNat(a) == IF a = << >> THEN 0 ELSE a[1] + LimbBase * ToNat(Tail(a))

ZeroLimbs(n) == SubSeq(<< 0, 0, 0, 0, 0, 0, 0, 0 >>, 1, n)

\* ------------------------------------------------------------ binary64
\* The exact value n (with "inexact" telling that the true value lies strictly
\* between n and n + 1 units) rounded to MantBits significant bits, ties to even.
RoundF64(n, inexact) ==
  LET s == BitLen(n) - MantBits
  IN  IF s <= 0 THEN n
      ELSE LET w     == s \div LimbBits
               p     == 2 ^ (s % LimbBits)
               cut   == n[w + 1] % p
               guard == IF p > 1 THEN cut \div (p \div 2)
                                 ELSE n[w] \div (LimbBase \div 2)
               below == IF p > 1
                        THEN cut % (p \div 2) # 0 \/ \E i \in 1..w : n[i] # 0
                        ELSE \/ n[w] % (LimbBase \div 2) # 0
                             \/ \E i \in 1..(w - 1) : n[i] # 0
               odd   == (n[w + 1] \div p) % 2 = 1
               trunc == ZeroLimbs(w) \o << n[w + 1] - cut >> \o SubSeq(n, w + 2, Len(n))
               up    == guard = 1 /\ (below \/ inexact \/ odd)
           IN  IF up THEN BigAdd(trunc, ZeroLimbs(w) \o << p >>) ELSE trunc

\* u64 as f64 (exact below 2^53)
F64FromU64(n) ==
  IF n = 0 THEN << >> ELSE RoundF64(ZeroLimbs(FracLimbs) \o FromNat(n), FALSE)

\* f64 as u64: truncation toward zero
F64ToU64(x) ==
  IF Len(x) <= FracLimbs THEN 0 ELSE ToNat(SubSeq(x, FracLimbs + 1, Len(x)))

F64Add(x, y) == RoundF64(BigAdd(x, y), FALSE)

\* x - y for x >= y
F64Sub(x, y) == RoundF64(BigSub(x, y), FALSE)

\* x * k and x / k for an f64 k that is a small integer
F64MulInt(x, k) == RoundF64(BigMulSmall(x, k), FALSE)

F64DivInt(x, k) ==
  LET d == BigDivSmall(x, k) IN RoundF64(d.q, d.r # 0)

F64Less(x, y) == BigLess(x, y)

\* ------------------------------------------------------------ zoom level
\* An f64 that may be negative: the magnitude and its sign.
Pos(x) == [neg |-> FALSE, mag |-> x]

F64One == F64FromU64(1)
F64Half == F64DivInt(F64One, 2)
F64Three == F64FromU64(3)
\* the literal 0.1: the f64 nearest to 1/10
F64Tenth == F64DivInt(F64One, 10)

\* current + 0.1 and current - 0.1
PlusFifth(x) == Pos(F64Add(F64Add(x, F64Tenth), F64Tenth))

PlusTenth(x) == Pos(F64Add(x, F64Tenth))

MinusTenth(x) ==
  IF F64Less(x, F64Tenth) THEN [neg |-> TRUE, mag |-> F64Sub(F64Tenth, x)]
  ELSE Pos(F64Sub(x, F64Tenth))

\* factor.clamp(0.5, 3.0)
clamp_no_min(factor) ==
  IF F64Less(F64Three, factor.mag) THEN F64Three ELSE factor.mag

clamp(factor) ==
  IF factor.neg \/ F64Less(factor.mag, F64Half) THEN F64Half
  ELSE IF F64Less(F64Three, factor.mag) THEN F64Three
  ELSE factor.mag

\* (clamped * 100.0) as u64
to_level(clamped) == F64ToU64(F64MulInt(clamped, 100))

ZoomIds == {"zoom_in", "zoom_out", "zoom_reset"}
\* identifiers of other menu entries, among them near misses of the zoom ones
OtherIds == {"fullscreen", "Zoom In"}
EventIds == ZoomIds \cup OtherIds
Platforms == {"macos", "other"}

MaxFailures == 1

VARIABLES
  ZOOM_LEVEL,      \* the AtomicU64: zoom in hundredths
  webview_zoom,    \* the zoom the main webview window has (f64)
  set_zoom_calls,  \* webview.set_zoom calls of the latest menu event, in order
  event_id,        \* identifier of the latest menu event, "" before the first
  prev_level,      \* ZOOM_LEVEL before the latest menu event
  prev_webview,    \* webview_zoom before the latest menu event
  failures,        \* number of set_zoom calls that returned Err
  phase,           \* "setup" until the setup closure has run, then "running"
  platform,        \* target_os
  default_menu,    \* what Menu::default returned
  menu,            \* the application menu
  handlers,        \* per thread, the handler invocation in progress
  dispatched,      \* number of menu events dispatched to the threads
  burst,           \* identifiers dispatched since all threads were last idle
  base             \* ZOOM_LEVEL when the first event of the burst was dispatched

vars == << ZOOM_LEVEL, webview_zoom, set_zoom_calls, event_id, prev_level,
           prev_webview, failures, phase, platform, default_menu, menu,
           handlers, dispatched, burst, base >>

zoomVars == << ZOOM_LEVEL, webview_zoom, set_zoom_calls, event_id, prev_level,
               prev_webview, failures >>
menuVars == << platform, default_menu, menu >>
histVars == << event_id, prev_level, prev_webview, set_zoom_calls >>
concVars == << handlers, dispatched, burst, base >>

\* ZOOM_LEVEL.load(Relaxed) as f64 / 100.0
get_zoom_factor == F64DivInt(F64FromU64(ZOOM_LEVEL), 100)

\* set_zoom_factor(webview, factor), with ok the result of webview.set_zoom:
\* the level stored, then the set_zoom call, whose result is dropped.
set_zoom_factor_rollback(factor, ok) ==
  LET clamped == clamp(factor)
      level   == IF ok THEN to_level(clamped) ELSE ZOOM_LEVEL
  IN  [level |-> level,
       calls |-> << [factor |-> clamped, level_at_call |-> level, ok |-> ok] >>,
       webview |-> IF ok THEN clamped ELSE webview_zoom]

set_zoom_factor(factor, ok) ==
  LET clamped == clamp(factor)
      level   == to_level(clamped)
  IN  [level |-> level,
       calls |-> << [factor |-> clamped, level_at_call |-> level, ok |-> ok] >>,
       webview |-> IF ok THEN clamped ELSE webview_zoom]

\* The closure given to on_menu_event: what it does for an identifier.
unchanged_zoom == [level |-> ZOOM_LEVEL, calls |-> << >>, webview |-> webview_zoom]

handler_no_reset(id, ok) ==
  IF id = "zoom_in" THEN set_zoom_factor(PlusTenth(get_zoom_factor), ok)
  ELSE IF id = "zoom_out" THEN set_zoom_factor(MinusTenth(get_zoom_factor), ok)
  ELSE unchanged_zoom

handler_else_reset(id, ok) ==
  IF id = "zoom_in" THEN set_zoom_factor(PlusTenth(get_zoom_factor), ok)
  ELSE IF id = "zoom_out" THEN set_zoom_factor(MinusTenth(get_zoom_factor), ok)
  ELSE set_zoom_factor(Pos(F64One), ok)

handler(id, ok) ==
  IF id = "zoom_in" THEN set_zoom_factor(PlusTenth(get_zoom_factor), ok)
  ELSE IF id = "zoom_out" THEN set_zoom_factor(MinusTenth(get_zoom_factor), ok)
  ELSE IF id = "zoom_reset" THEN set_zoom_factor(Pos(F64One), ok)
  ELSE unchanged_zoom

OnMenuEvent(id, ok) ==
  /\ phase = "running"
  /\ ok \/ (id \in ZoomIds /\ failures < MaxFailures)
  /\ LET out == handler(id, ok)
     IN  /\ ZOOM_LEVEL' = out.level
         /\ set_zoom_calls' = out.calls
         /\ webview_zoom' = out.webview
  /\ event_id' = id
  /\ prev_level' = ZOOM_LEVEL
  /\ prev_webview' = webview_zoom
  /\ failures' = IF ok THEN failures ELSE failures + 1
  /\ UNCHANGED << phase, menuVars, concVars >>


\* ------------------------------------------------------------------ menu
Sub(text, items) == [kind |-> "submenu", text |-> text, items |-> items]
Item(id) == [kind |-> "item", text |-> id, items |-> << >>]

AppMenu == Sub("Paseo", << "about", "quit" >>)
EditMenu == Sub("Edit", << "copy", "paste" >>)
ViewMenu == Sub("View", << "fullscreen" >>)
EmptyViewMenu == Sub("View", << >>)
HelpItem == Item("help")

IsSubmenu(e) == e.kind = "submenu"
IsView(e) == e.kind = "submenu" /\ e.text = "View"

\* index of the first submenu of m, and of the first one titled "View";
\* 0 if there is none
FirstSubmenu(m) ==
  IF \E i \in 1..Len(m) : IsSubmenu(m[i])
  THEN CHOOSE i \in 1..Len(m) : IsSubmenu(m[i]) /\ \A j \in 1..(i - 1) : ~IsSubmenu(m[j])
  ELSE 0

FirstView(m) ==
  IF \E i \in 1..Len(m) : IsView(m[i])
  THEN CHOOSE i \in 1..Len(m) : IsView(m[i]) /\ \A j \in 1..(i - 1) : ~IsView(m[j])
  ELSE 0

ZoomItems == << "zoom_in", "zoom_out", "zoom_reset" >>
ZoomItemsSep == ZoomItems \o << "separator" >>

\* macOS: the first item of the first submenu is replaced by the about item
\* built from the package info
replace_about(m) ==
  LET a == FirstSubmenu(m)
  IN  IF a = 0 \/ m[a].items = << >> THEN m
      ELSE [m EXCEPT ![a].items = << "about_short_version" >> \o Tail(@)]

\* the menu handed to app.set_menu
build_menu_always_append(os, m) ==
  IF os = "macos"
  THEN Append(replace_about(m), Sub("View", ZoomItemsSep))
  ELSE Append(m, Sub("View", ZoomItems))

build_menu(os, m) ==
  IF os = "macos"
  THEN LET m1 == replace_about(m)
           v  == FirstView(m1)
       IN  IF v # 0
           THEN [m1 EXCEPT ![v].items = ZoomItemsSep \o @]
           ELSE Append(m1, Sub("View", ZoomItemsSep))
  ELSE Append(m, Sub("View", ZoomItems))

Setup ==
  /\ phase = "setup"
  /\ menu' = build_menu(platform, default_menu)
  /\ phase' = "running"
  /\ UNCHANGED << zoomVars, platform, default_menu, concVars >>

\* ------------------------------------------------------------------ runs
Threads == {1, 2}
Idle == [pc |-> "idle", id |-> "", factor |-> Pos(F64One)]

\* Menu::default: on macOS it has a View submenu (with Fullscreen), elsewhere
\* it has none (lib.rs, comments at lines 80 and 109).
StdDefaultMenu(os) ==
  IF os = "macos" THEN << AppMenu, EditMenu, ViewMenu >> ELSE << AppMenu, EditMenu >>

InitZoom ==
  /\ ZOOM_LEVEL = 100
  /\ webview_zoom = F64One
  /\ set_zoom_calls = << >>
  /\ event_id = ""
  /\ prev_level = 100
  /\ prev_webview = F64One
  /\ failures = 0
  /\ phase = "setup"
  /\ handlers = [t \in Threads |-> Idle]
  /\ dispatched = 0
  /\ burst = << >>
  /\ base = 100

Init ==
  /\ InitZoom
  /\ platform \in Platforms
  /\ default_menu = StdDefaultMenu(platform)
  /\ menu = default_menu

\* Setup alone, over the default menus Menu::default may return: up to
\* MaxMenuLen entries, submenus (a View one among them on macOS) or plain items.
MaxMenuLen == 3

MenuEntries(os) ==
  IF os = "macos" THEN {AppMenu, EditMenu, ViewMenu, EmptyViewMenu, HelpItem}
  ELSE {AppMenu, EditMenu, HelpItem}

DefaultMenus(os) == UNION {[1..k -> MenuEntries(os)] : k \in 0..MaxMenuLen}

InitMenu ==
  /\ InitZoom
  /\ platform \in Platforms
  /\ default_menu \in DefaultMenus(platform)
  /\ menu = default_menu

SpecMenu == InitMenu /\ [][Setup]_vars

\* ------------------------------------------------- interleaved handlers
\* The handler of lines 122-133 run by two threads at once, one step per
\* atomic access: the load of get_zoom_factor, the store of set_zoom_factor,
\* the set_zoom call.
MaxDispatch == 3

AllIdle == \A t \in Threads : handlers[t].pc = "idle"

Dispatch(t, id) ==
  /\ phase = "running"
  /\ handlers[t].pc = "idle"
  /\ dispatched < MaxDispatch
  /\ dispatched' = dispatched + 1
  /\ burst' = IF AllIdle THEN << id >> ELSE Append(burst, id)
  /\ base' = IF AllIdle THEN ZOOM_LEVEL ELSE base
  /\ handlers' = [handlers EXCEPT ![t] =
       IF id \in {"zoom_in", "zoom_out"} THEN [pc |-> "load", id |-> id, factor |-> Pos(F64One)]
       ELSE IF id = "zoom_reset" THEN [pc |-> "store", id |-> id, factor |-> Pos(F64One)]
       ELSE Idle]
  /\ UNCHANGED << zoomVars, phase, menuVars >>

Load(t) ==
  /\ handlers[t].pc = "load"
  /\ handlers' = [handlers EXCEPT ![t].pc = "store",
       ![t].factor = IF handlers[t].id = "zoom_in" THEN PlusTenth(get_zoom_factor)
                     ELSE MinusTenth(get_zoom_factor)]
  /\ UNCHANGED << zoomVars, phase, menuVars, dispatched, burst, base >>

Store(t) ==
  /\ handlers[t].pc = "store"
  /\ ZOOM_LEVEL' = set_zoom_factor(handlers[t].factor, TRUE).level
  /\ handlers' = [handlers EXCEPT ![t].pc = "apply"]
  /\ UNCHANGED << webview_zoom, histVars, failures, phase, menuVars,
                  dispatched, burst, base >>

Apply(t, ok) ==
  /\ handlers[t].pc = "apply"
  /\ ok \/ failures < MaxFailures
  /\ webview_zoom' = IF ok THEN clamp(handlers[t].factor) ELSE webview_zoom
  /\ failures' = IF ok THEN failures ELSE failures + 1
  /\ handlers' = [handlers EXCEPT ![t] = Idle]
  /\ UNCHANGED << ZOOM_LEVEL, histVars, phase, menuVars, dispatched, burst, base >>

NextConc ==
  \/ Setup
  \/ \E t \in Threads, id \in EventIds : Dispatch(t, id)
  \/ \E t \in Threads : Load(t)
  \/ \E t \in Threads : Store(t)
  \/ \E t \in Threads, ok \in BOOLEAN : Apply(t, ok)

SpecConc == Init /\ [][NextConc]_vars

Next ==
  \/ Setup
  \/ \E id \in EventIds, ok \in BOOLEAN : OnMenuEvent(id, ok)

Spec == Init /\ [][Next]_vars

\* ---------------------------------------------------------------- claims
Min(a, b) == IF a < b THEN a ELSE b
Max(a, b) == IF a < b THEN b ELSE a

InRange(x) == ~F64Less(x, F64Half) /\ ~F64Less(F64Three, x)

\* C1: in every reachable state the stored zoom level is between 50 and 300
\* hundredths, so the factor get_zoom_factor reads back is within [0.5, 3.0].
C1_LevelInRange ==
  /\ ZOOM_LEVEL \in 50..300
  /\ InRange(get_zoom_factor)

\* a zoom_out at the lower limit has been handled
C1_Witness ==
  /\ event_id = "zoom_out"
  /\ prev_level = 50
  /\ ZOOM_LEVEL = 50

\* C2: from a stored level L, zoom_in stores exactly min(L + 10, 300) and
\* zoom_out stores exactly max(L - 10, 50).
C2_StepIsTen ==
  /\ event_id = "zoom_in" => ZOOM_LEVEL = Min(prev_level + 10, 300)
  /\ event_id = "zoom_out" => ZOOM_LEVEL = Max(prev_level - 10, 50)

\* C3: the level is 100 before any event; zoom_reset stores 100 and passes 1.0
\* to the webview whatever the level was; a second zoom_reset right after a
\* first changes neither the level nor the factor passed, nor the webview's
\* zoom once the first one was applied.
C3_ResetState ==
  /\ event_id = "" => ZOOM_LEVEL = 100
  /\ event_id = "zoom_reset" =>
       /\ ZOOM_LEVEL = 100
       /\ Len(set_zoom_calls) = 1
       /\ set_zoom_calls[1].factor = F64One
       /\ set_zoom_calls[1].ok => webview_zoom = F64One

C3_ResetTwice ==
  (event_id = "zoom_reset" /\ event_id' = "zoom_reset") =>
     /\ ZOOM_LEVEL' = ZOOM_LEVEL
     /\ set_zoom_calls'[1].factor = set_zoom_calls[1].factor
     /\ set_zoom_calls[1].ok => webview_zoom' = webview_zoom

C3_Reset == []C3_ResetState /\ [][C3_ResetTwice]_vars

\* a zoom_reset handled at a level other than 100
C3_Witness ==
  /\ event_id = "zoom_reset"
  /\ prev_level # 100
  /\ ZOOM_LEVEL = 100
  /\ webview_zoom = F64One

\* C4: after a zoom event, set_zoom was called exactly once, after the store,
\* with a factor in [0.5, 3.0] equal to the stored level / 100.
C4_AppliedIsStored ==
  event_id \in ZoomIds =>
    /\ Len(set_zoom_calls) = 1
    /\ set_zoom_calls[1].level_at_call = ZOOM_LEVEL
    /\ InRange(set_zoom_calls[1].factor)
    /\ set_zoom_calls[1].factor = get_zoom_factor

\* C5: an event with another identifier leaves the level and the webview alone
\* and calls set_zoom not at all; each of the three zoom identifiers calls it.
C5_OtherIdsNoEffect ==
  /\ event_id \notin ZoomIds =>
       /\ ZOOM_LEVEL = prev_level
       /\ webview_zoom = prev_webview
       /\ set_zoom_calls = << >>
  /\ event_id \in ZoomIds => Len(set_zoom_calls) = 1

\* an event with a near miss of "zoom_in" handled at a level other than 100
C5_Witness ==
  /\ event_id = "Zoom In"
  /\ ZOOM_LEVEL # 100
  /\ ZOOM_LEVEL = prev_level
  /\ set_zoom_calls = << >>

\* C6: after setup the three zoom items occur exactly once, in order, in a
\* submenu titled "View"; a default menu with a "View" submenu gets no further
\* one: on macOS the items and a separator go to the front of the first "View"
\* submenu, ahead of its items, else a new "View" submenu is appended; on other
\* systems a new "View" submenu with the three items is appended.
Views(m) == {i \in 1..Len(m) : IsView(m[i])}
Occurrences(m, id) ==
  {<< i, j >> \in (1..Len(m)) \X (1..8) :
      /\ IsSubmenu(m[i])
      /\ j <= Len(m[i].items)
      /\ m[i].items[j] = id}

C6_ViewMenu ==
  phase = "running" =>
    /\ \A id \in ZoomIds : Cardinality(Occurrences(menu, id)) = 1
    /\ \E v \in Views(menu) : \E j \in 1..8 :
         /\ j + 2 <= Len(menu[v].items)
         /\ SubSeq(menu[v].items, j, j + 2) = ZoomItems
    /\ Cardinality(Views(menu)) = Max(Cardinality(Views(default_menu)), 1)
    /\ (platform = "macos" /\ Views(default_menu) # {}) =>
         LET f   == FirstView(default_menu)
             old == default_menu[f].items
             new == menu[f].items
         IN  /\ Len(menu) = Len(default_menu)
             /\ Len(new) = Len(old) + 4
             /\ SubSeq(new, 1, 4) = ZoomItemsSep
             /\ \A k \in 1..Len(old) :
                  new[4 + k] = old[k] \/ (k = 1 /\ f = FirstSubmenu(default_menu))
    /\ (platform = "macos" /\ Views(default_menu) = {}) =>
         /\ Len(menu) = Len(default_menu) + 1
         /\ menu[Len(menu)] = Sub("View", ZoomItemsSep)
    /\ platform # "macos" =>
         /\ menu = default_menu \o << Sub("View", ZoomItems) >>

\* setup has run on macOS over a default menu with two "View" submenus
C6_Witness ==
  /\ phase = "running"
  /\ platform = "macos"
  /\ Cardinality(Views(default_menu)) = 2
  /\ menu[FirstView(menu)].items[1] = "zoom_in"

\* C7: zoom_in then zoom_out from L <= 290, and zoom_out then zoom_in from
\* L >= 60, return the level to L; every reachable level is a multiple of 10.
C7_RoundTripStep ==
  /\ (event_id = "zoom_in" /\ event_id' = "zoom_out" /\ prev_level <= 290)
       => ZOOM_LEVEL' = prev_level
  /\ (event_id = "zoom_out" /\ event_id' = "zoom_in" /\ prev_level >= 60)
       => ZOOM_LEVEL' = prev_level
  /\ ZOOM_LEVEL' % 10 = 0

C7_RoundTrip == [][C7_RoundTripStep]_vars

\* C8: when set_zoom fails the handler still completes, the level stored is
\* the clamped new value and the webview keeps its zoom; every zoom_in and
\* zoom_out steps from the stored level, whatever zoom the webview has.
StepUp(l) == {Min(l + 9, 300), Min(l + 10, 300)}
StepDown(l) == {Max(l - 10, 50), Max(l - 11, 50)}

C8_FailedApply ==
  /\ (event_id \in ZoomIds /\ Len(set_zoom_calls) = 1 /\ ~set_zoom_calls[1].ok) =>
       /\ ZOOM_LEVEL = to_level(set_zoom_calls[1].factor)
       /\ webview_zoom = prev_webview
       /\ phase = "running"
  /\ event_id \in ZoomIds => Len(set_zoom_calls) = 1
  /\ event_id = "zoom_in" => ZOOM_LEVEL \in StepUp(prev_level)
  /\ event_id = "zoom_out" => ZOOM_LEVEL \in StepDown(prev_level)

\* a zoom_in failed to apply at level 100 (webview still at 1.0, level 110)
\* and the next zoom_in went from the stored 110 to 120
C8_Witness ==
  /\ event_id = "zoom_in"
  /\ prev_level = 110
  /\ prev_webview = F64One
  /\ ZOOM_LEVEL = 120
  /\ failures = 1

\* C9 as stated: interleaved handlers keep the level within 50..300 and lose
\* no update: two overlapping zoom_in from L end at min(L + 20, 300).
TwoZoomIn == AllIdle /\ burst = << "zoom_in", "zoom_in" >>

====
